---- MODULE Spec2Model ----
(***************************************************************************)
(* Model of tensor/tensor-common.h: the default device / dtype registers,  *)
(* the scoped override guards WithDeviceAs / WithDtypeAs, the TensorOptions *)
(* constructors, SizeOf, the tick counter and the debug flag.              *)
(***************************************************************************)
EXTENDS Integers, Sequences, FiniteSets, TLC

\* ------------------------------------------------------------------ bounds
MaxGuards == 2      \* live guard objects on the (automatic storage) stack
MaxTick   == 3      \* NextTick calls explored
NumThreads == 3     \* concurrent contexts sharing g_tick_counter

\* ------------------------------------------------------- enumerations
kCpuDevice  == 0
kCudaDevice == 1
DeviceTypes == {kCpuDevice, kCudaDevice}

kDefaultDtype == 0
kFloatDtype   == 1
kDoubleDtype  == 2
DataTypes     == {kDefaultDtype, kFloatDtype, kDoubleDtype}
ConcreteDtypes == {kFloatDtype, kDoubleDtype}
\* ints cast to DataType that name no enumerator
BadDtypes     == {3}
DtypeInputs   == DataTypes \cup BadDtypes

\* struct Device { DeviceType device_type; }
Device(t) == [device_type |-> t]
Devices == {Device(t) : t \in DeviceTypes}

None == [none |-> TRUE]

VARIABLES
  default_device,   \* the register behind GetDefaultDevice / SetDefaultDevice
  default_dtype,    \* the register behind GetDefaultDtype / SetDefaultDtype
  guards,           \* live WithDeviceAs / WithDtypeAs objects, innermost last
  opts,             \* the TensorOptions object most recently constructed
  g_tick_counter,   \* extern int64 g_tick_counter
  debug_mode,       \* extern bool debug_mode
  last,             \* the operation that ran last, its arguments and result
  scen,             \* history: steps of the end-to-end scenario just completed
  inScope,          \* history: direct setter calls under the innermost guard
  lastSetDevice,    \* history: argument of the latest SetDefaultDevice call
  lastSetDtype,     \* history: argument of the latest SetDefaultDtype call
  restored,         \* history: live constructor calls whose saved value was written back
  ticks,            \* history: values returned by NextTick, in call order
  pc,               \* concurrent contexts: position inside NextTick
  tmp,              \* concurrent contexts: value loaded from g_tick_counter
  ctx               \* concurrent contexts: the guard each context owns

vars == <<default_device, default_dtype, guards, opts, g_tick_counter,
          debug_mode, last, scen, inScope, lastSetDevice, lastSetDtype, restored, ticks,
          pc, tmp, ctx>>

regVars  == <<default_device, default_dtype, lastSetDevice, lastSetDtype>>
tickVars == <<g_tick_counter, ticks>>
concVars == <<pc, tmp, ctx>>

Threads == 1..NumThreads

\* Arguments and results are recorded as records: a Device as it is, a
\* DataType as AsDtype, an integer as AsInt, a bool as AsBool.
Op(name, arg, ret) == [arg |-> arg, ret |-> ret, op |-> name]
AsDtype(d) == [dtype |-> d]
AsInt(n)   == [value |-> n]
AsBool(b)  == [flag |-> b]

CPU  == Device(kCpuDevice)
CUDA == Device(kCudaDevice)

\* The end-to-end scenario, from {device = CPU, dtype = Float} with no guard:
\*   1 WithDeviceAs(CUDA)   2 WithDtypeAs(Double)   3 TensorOptions()
\*   4 ~WithDtypeAs         5 TensorOptions()       6 ~WithDeviceAs
\*   7 TensorOptions()
\* ScenStep is the number of its steps that the calls up to and including
\* the present one have completed back to back.
ScenStep(name, arg) ==
  IF /\ name = "WithDeviceAs" /\ arg = CUDA
     /\ guards = <<>> /\ default_device = CPU /\ default_dtype = kFloatDtype
    THEN 1
  ELSE IF scen = 1 /\ name = "WithDtypeAs" /\ arg = AsDtype(kDoubleDtype) THEN 2
  ELSE IF scen = 2 /\ name = "TensorOptions" /\ arg = None THEN 3
  ELSE IF scen = 3 /\ name = "~WithDtypeAs" THEN 4
  ELSE IF scen = 4 /\ name = "TensorOptions" /\ arg = None THEN 5
  ELSE IF scen = 5 /\ name = "~WithDeviceAs" THEN 6
  ELSE IF scen = 6 /\ name = "TensorOptions" /\ arg = None THEN 7
  ELSE 0

\* The setter that writes the register a guard class saves.
SetterOf(reg) == IF reg = "device" THEN "SetDefaultDevice" ELSE "SetDefaultDtype"

\* ScopeStep follows one guard through its life: 1 when the overriding
\* constructor has just built it, 2 while the only calls since then are
\* direct calls of the setter of its register (at least one), 3 when its
\* destructor ran right after those; 0 otherwise.
ScopeStep(name) ==
  IF name \in {"WithDeviceAs", "WithDtypeAs"} THEN 1
  ELSE IF inScope \in {1, 2} /\ name = SetterOf(guards[Len(guards)].reg) THEN 2
  ELSE IF inScope = 2 /\ name \in {"~WithDeviceAs", "~WithDtypeAs"} THEN 3
  ELSE 0

\* record the call in the history
Did(name, arg, ret) ==
  /\ last' = Op(name, arg, ret)
  /\ scen' = ScenStep(name, arg)
  /\ inScope' = ScopeStep(name)

\* ------------------------------------------------------------ registers
GetDefaultDevice == default_device
GetDefaultDtype  == default_dtype

\* SetDefaultDevice(device): overwrite the register unconditionally.
SetDefaultDevice(device) == default_device' = device

\* Variant: a setter that refuses the placeholder.
SetDefaultDtypeSkipsPlaceholder(dtype) ==
  default_dtype' = IF dtype = kDefaultDtype THEN default_dtype ELSE dtype

\* SetDefaultDtype(dtype): overwrite the register unconditionally.
SetDefaultDtype(dtype) == default_dtype' = dtype

CallGetDefaultDevice ==
  /\ Did("GetDefaultDevice", None, GetDefaultDevice)
  /\ UNCHANGED <<regVars, guards, opts, tickVars, debug_mode, restored, concVars>>

CallGetDefaultDtype ==
  /\ Did("GetDefaultDtype", None, AsDtype(GetDefaultDtype))
  /\ UNCHANGED <<regVars, guards, opts, tickVars, debug_mode, restored, concVars>>

CallSetDefaultDevice ==
  \E device \in Devices :
    /\ SetDefaultDevice(device)
    /\ lastSetDevice' = device
    /\ Did("SetDefaultDevice", device, None)
    /\ UNCHANGED <<default_dtype, lastSetDtype, guards, opts, tickVars,
                   debug_mode, restored, concVars>>

CallSetDefaultDtype ==
  \E dtype \in DataTypes :
    /\ SetDefaultDtype(dtype)
    /\ lastSetDtype' = dtype
    /\ Did("SetDefaultDtype", AsDtype(dtype), None)
    /\ UNCHANGED <<default_device, lastSetDevice, guards, opts, tickVars,
                   debug_mode, restored, concVars>>

\* --------------------------------------------------------------- guards
\* A guard object: reg says which class it is, prev_default_ is its member.
\* was, txn and copy are history fields: the register value at the moment
\* prev_default_ was saved, the stack slot of the constructor call that saved
\* it, and whether the object came from the copy constructor.
Guard(reg, prev, was, txn, copy) ==
  [reg |-> reg, prev_default_ |-> prev, was |-> was, txn |-> txn, copy |-> copy]

\* The result recorded for a destructor: again says that the value it wrote
\* back had been written back before by another object.
Restore(g) == [again |-> g.txn \in restored]

\* After the innermost object is destroyed no live object carries a value
\* saved at its stack slot.
AfterRestore(g) == (restored \cup {g.txn}) \ {Len(guards)}

\* WithDeviceAs(Device device): prev_default_(GetDefaultDevice())
\*   { SetDefaultDevice(device); }
WithDeviceAsCtor(device) ==
  /\ Len(guards) < MaxGuards
  /\ guards' = Append(guards, Guard("device", GetDefaultDevice, default_device,
                                    Len(guards) + 1, FALSE))
  /\ SetDefaultDevice(device)
  /\ lastSetDevice' = device
  /\ UNCHANGED restored
  /\ Did("WithDeviceAs", device, None)
  /\ UNCHANGED <<default_dtype, lastSetDtype, opts, tickVars, debug_mode, concVars>>

\* Variant: a destructor that leaves the register as the scope left it.
WithDeviceAsDtorNoRestore ==
  /\ guards # <<>>
  /\ guards[Len(guards)].reg = "device"
  /\ Did("~WithDeviceAs", guards[Len(guards)], Restore(guards[Len(guards)]))
  /\ restored' = AfterRestore(guards[Len(guards)])
  /\ guards' = SubSeq(guards, 1, Len(guards) - 1)
  /\ UNCHANGED <<regVars, opts, tickVars, debug_mode, concVars>>

\* ~WithDeviceAs() { SetDefaultDevice(prev_default_); }
WithDeviceAsDtor ==
  /\ guards # <<>>
  /\ guards[Len(guards)].reg = "device"
  /\ LET g == guards[Len(guards)] IN
       /\ SetDefaultDevice(g.prev_default_)
       /\ lastSetDevice' = g.prev_default_
       /\ restored' = AfterRestore(g)
       /\ Did("~WithDeviceAs", g, Restore(g))
  /\ guards' = SubSeq(guards, 1, Len(guards) - 1)
  /\ UNCHANGED <<default_dtype, lastSetDtype, opts, tickVars, debug_mode, concVars>>

\* Variant: the constructor writes the register before it saves it.
WithDtypeAsCtorSavesNew(dtype) ==
  /\ Len(guards) < MaxGuards
  /\ guards' = Append(guards, Guard("dtype", dtype, default_dtype,
                                    Len(guards) + 1, FALSE))
  /\ SetDefaultDtype(dtype)
  /\ lastSetDtype' = dtype
  /\ UNCHANGED restored
  /\ Did("WithDtypeAs", AsDtype(dtype), None)
  /\ UNCHANGED <<default_device, lastSetDevice, opts, tickVars, debug_mode, concVars>>

\* WithDtypeAs(DataType dtype): prev_default_(GetDefaultDtype())
\*   { SetDefaultDtype(dtype); }
WithDtypeAsCtor(dtype) ==
  /\ Len(guards) < MaxGuards
  /\ guards' = Append(guards, Guard("dtype", GetDefaultDtype, default_dtype,
                                    Len(guards) + 1, FALSE))
  /\ SetDefaultDtype(dtype)
  /\ lastSetDtype' = dtype
  /\ UNCHANGED restored
  /\ Did("WithDtypeAs", AsDtype(dtype), None)
  /\ UNCHANGED <<default_device, lastSetDevice, opts, tickVars, debug_mode, concVars>>

\* Variant: a destructor that does not write the register.
WithDtypeAsDtorNoRestore ==
  /\ guards # <<>>
  /\ guards[Len(guards)].reg = "dtype"
  /\ Did("~WithDtypeAs", guards[Len(guards)], Restore(guards[Len(guards)]))
  /\ restored' = AfterRestore(guards[Len(guards)])
  /\ guards' = SubSeq(guards, 1, Len(guards) - 1)
  /\ UNCHANGED <<regVars, opts, tickVars, debug_mode, concVars>>

\* ~WithDtypeAs() { SetDefaultDtype(prev_default_); }
WithDtypeAsDtor ==
  /\ guards # <<>>
  /\ guards[Len(guards)].reg = "dtype"
  /\ LET g == guards[Len(guards)] IN
       /\ SetDefaultDtype(g.prev_default_)
       /\ lastSetDtype' = g.prev_default_
       /\ restored' = AfterRestore(g)
       /\ Did("~WithDtypeAs", g, Restore(g))
  /\ guards' = SubSeq(guards, 1, Len(guards) - 1)
  /\ UNCHANGED <<default_device, lastSetDevice, opts, tickVars, debug_mode, concVars>>

\* Neither class declares or deletes a copy constructor, so the implicit one
\* exists: it copies prev_default_ and does not touch the register.
GuardCopyCtor ==
  /\ Len(guards) < MaxGuards
  /\ \E i \in 1..Len(guards) :
       LET src == guards[i]
       IN /\ guards' = Append(guards, Guard(src.reg, src.prev_default_, src.was,
                                            src.txn, TRUE))
          /\ Did("GuardCopy", src, None)
  /\ UNCHANGED <<regVars, opts, tickVars, debug_mode, restored, concVars>>

CallWithDeviceAs == \E device \in Devices : WithDeviceAsCtor(device)
CallWithDtypeAs  == \E dtype \in DataTypes : WithDtypeAsCtor(dtype)

\* -------------------------------------------------------- TensorOptions
Options(dtype, device) == [dtype |-> dtype, device |-> device]

\* Variant: a stored placeholder is resolved against the register at each read.
DtypeOfLazy(o) ==
  IF o.dtype = kDefaultDtype THEN GetDefaultDtype ELSE o.dtype

\* Reading the members of a TensorOptions: DataType dtype; Device device;
DtypeOf(o) == o.dtype

DeviceOf(o) == o.device

\* TensorOptions(): dtype(GetDefaultDtype()), device(GetDefaultDevice())
TensorOptions0 == Options(GetDefaultDtype, GetDefaultDevice)

\* Variant: the one-argument constructor drops its argument.
TensorOptionsDtypeIgnoresArg(dtype) == Options(GetDefaultDtype, GetDefaultDevice)

\* TensorOptions(DataType dtype): dtype(dtype), device(GetDefaultDevice())
TensorOptionsDtype(dtype) == Options(dtype, GetDefaultDevice)

\* TensorOptions(Device device): dtype(GetDefaultDtype()), device(device)
TensorOptionsDevice(device) == Options(GetDefaultDtype, device)

\* TensorOptions(DeviceType device_type):
\*   dtype(GetDefaultDtype()), device(device_type)
TensorOptionsDeviceType(device_type) == Options(GetDefaultDtype, Device(device_type))

\* TensorOptions(DataType dtype, Device device): dtype(dtype), device(device)
TensorOptionsDtypeDevice(dtype, device) == Options(dtype, device)

\* TensorOptions(DataType dtype, Device device_type):
\*   dtype(dtype), device(device_type)
TensorOptionsDtypeDevice2(dtype, device_type) == Options(dtype, device_type)

\* TensorOptions(const TensorOptions &other)
TensorOptionsCopy(other) == Options(other.dtype, other.device)

\* The argument recorded in last names exactly the fields the caller supplied:
\* dtype, device (a Device) and tag (a bare DeviceType); None when no field.
optsFrame == <<regVars, guards, tickVars, debug_mode, restored, concVars>>

NewTensorOptions0 ==
  /\ opts' = TensorOptions0
  /\ Did("TensorOptions", None, opts')
  /\ UNCHANGED optsFrame

NewTensorOptionsDtype ==
  \E dtype \in DataTypes :
    /\ opts' = TensorOptionsDtype(dtype)
    /\ Did("TensorOptions", [dtype |-> dtype], opts')
    /\ UNCHANGED optsFrame

NewTensorOptionsDevice ==
  \E device \in Devices :
    /\ opts' = TensorOptionsDevice(device)
    /\ Did("TensorOptions", [device |-> device], opts')
    /\ UNCHANGED optsFrame

NewTensorOptionsDeviceType ==
  \E device_type \in DeviceTypes :
    /\ opts' = TensorOptionsDeviceType(device_type)
    /\ Did("TensorOptions", [tag |-> device_type], opts')
    /\ UNCHANGED optsFrame

NewTensorOptionsDtypeDevice ==
  \E dtype \in DataTypes, device \in Devices :
    /\ opts' = TensorOptionsDtypeDevice(dtype, device)
    /\ Did("TensorOptions", [dtype |-> dtype, device |-> device], opts')
    /\ UNCHANGED optsFrame

\* the second (DataType, Device) overload; a DeviceType argument reaches it
\* through Device(DeviceType)
NewTensorOptionsDtypeDevice2 ==
  \E dtype \in DataTypes, device_type \in DeviceTypes :
    /\ opts' = TensorOptionsDtypeDevice2(dtype, Device(device_type))
    /\ Did("TensorOptions", [dtype |-> dtype, tag |-> device_type], opts')
    /\ UNCHANGED optsFrame

NewTensorOptionsCopy ==
  /\ opts # None
  /\ opts' = TensorOptionsCopy(opts)
  /\ Did("TensorOptionsCopy", opts, opts')
  /\ UNCHANGED optsFrame

\* ---------------------------------------------------------------- SizeOf
Return(v)  == [value |-> v, kind |-> "return"]
KaldiErr(v) == [value |-> v, kind |-> "error"]
Crash      == [value |-> 0, kind |-> "crash"]

\* Values a caller may read after control flows off the end of SizeOf.
GarbageInts == {-1, 0, 4, 8}

\* Flowing off the end of a function that returns int32 is undefined: the
\* caller reads whatever is in the return register, or the process traps.
FlowsOffEnd == {Return(v) : v \in GarbageInts} \cup {Crash}

\* switch(dtype) { case 0: return 4; case 1: return 8;
\*                 case 2: KALDI_ERR << "Invalid data-type " << int32(dtype); }
\* with no default label.  The result is the set of possible outcomes.
SizeOf(dtype) ==
  CASE dtype = 0 -> {Return(4)}
    [] dtype = 1 -> {Return(8)}
    [] dtype = 2 -> {KaldiErr(dtype)}
    [] OTHER     -> FlowsOffEnd

\* the case labels of the switch
SizeOfCases == {0, 1, 2}

CallSizeOf ==
  \E dtype \in DtypeInputs : \E out \in SizeOf(dtype) :
    /\ Did("SizeOf", AsDtype(dtype), out)
    /\ UNCHANGED <<regVars, guards, opts, tickVars, debug_mode, restored, concVars>>

\* ------------------------------------------------------------ tick counter
\* Variant: g_tick_counter++ in place of ++g_tick_counter.
PostIncrement(c) == [counter |-> c + 1, value |-> c]

\* ++g_tick_counter : the new counter value and the value of the expression
PreIncrement(c) == [counter |-> c + 1, value |-> c + 1]

\* Variant: NextTick also switches the debug flag on.
NextTickSetsDebug ==
  /\ g_tick_counter < MaxTick
  /\ LET r == PreIncrement(g_tick_counter) IN
       /\ g_tick_counter' = r.counter
       /\ ticks' = Append(ticks, r.value)
       /\ Did("NextTick", None, AsInt(r.value))
  /\ debug_mode' = TRUE
  /\ UNCHANGED <<regVars, guards, opts, restored, concVars>>

\* inline int64 NextTick() { return ++g_tick_counter; }
NextTick ==
  /\ g_tick_counter < MaxTick
  /\ LET r == PreIncrement(g_tick_counter) IN
       /\ g_tick_counter' = r.counter
       /\ ticks' = Append(ticks, r.value)
       /\ Did("NextTick", None, AsInt(r.value))
  /\ UNCHANGED <<regVars, guards, opts, debug_mode, restored, concVars>>

\* Variant: CurrentTick advances the counter as NextTick does.
CurrentTickAdvances ==
  /\ g_tick_counter < MaxTick
  /\ g_tick_counter' = g_tick_counter + 1
  /\ Did("CurrentTick", None, AsInt(g_tick_counter'))
  /\ UNCHANGED <<regVars, guards, opts, ticks, debug_mode, restored, concVars>>

\* inline int64 CurrentTick() { return g_tick_counter; }
CurrentTick ==
  /\ Did("CurrentTick", None, AsInt(g_tick_counter))
  /\ UNCHANGED <<regVars, guards, opts, tickVars, debug_mode, restored, concVars>>

\* --------------------------------------------------------------- debug flag
\* inline bool DebugMode() { return debug_mode; }
DebugMode ==
  /\ Did("DebugMode", None, AsBool(debug_mode))
  /\ UNCHANGED <<regVars, guards, opts, tickVars, debug_mode, restored, concVars>>

\* Variant: the flag can be switched on but not off again.
SetDebugModeSticky ==
  \E b \in BOOLEAN :
    /\ debug_mode' = (debug_mode \/ b)
    /\ Did("SetDebugMode", AsBool(b), None)
    /\ UNCHANGED <<regVars, guards, opts, tickVars, restored, concVars>>

\* inline void SetDebugMode(bool b) { debug_mode = b; }
SetDebugMode ==
  \E b \in BOOLEAN :
    /\ debug_mode' = b
    /\ Did("SetDebugMode", AsBool(b), None)
    /\ UNCHANGED <<regVars, guards, opts, tickVars, restored, concVars>>

\* ------------------------------------------- NextTick from several threads
\* g_tick_counter is a plain int64: ++g_tick_counter is a load followed by a
\* store, and calls from different threads race.
NextTickLoad(t) ==
  /\ pc[t] = "idle"
  /\ Len(ticks) + Cardinality({u \in Threads : pc[u] = "loaded"}) < MaxTick
  /\ tmp' = [tmp EXCEPT ![t] = g_tick_counter]
  /\ pc' = [pc EXCEPT ![t] = "loaded"]
  /\ Did("NextTick.load", AsInt(t), None)
  /\ UNCHANGED <<regVars, guards, opts, tickVars, debug_mode, restored, ctx>>

NextTickStore(t) ==
  /\ pc[t] = "loaded"
  /\ LET r == PreIncrement(tmp[t]) IN
       /\ g_tick_counter' = r.counter
       /\ ticks' = Append(ticks, r.value)
       /\ Did("NextTick", AsInt(t), AsInt(r.value))
  /\ pc' = [pc EXCEPT ![t] = "idle"]
  /\ UNCHANGED <<regVars, guards, opts, debug_mode, restored, tmp, ctx>>

ThreadNextTickLoad  == \E t \in Threads : NextTickLoad(t)
ThreadNextTickStore == \E t \in Threads : NextTickStore(t)

\* ------------------------------------------- guards from two contexts
\* The registers are plain globals shared by every thread, and a guard
\* constructor is two calls: GetDefault...() in the member initialiser, then
\* Set...() in the body.  Each context builds one guard and destroys it.
Contexts == {1, 2}

\* A register value as a record: a Device as it is, a DataType as AsDtype.
RegValue(reg) == IF reg = "device" THEN default_device ELSE AsDtype(default_dtype)

RegValues(reg) ==
  IF reg = "device" THEN Devices ELSE {AsDtype(d) : d \in DataTypes}

\* where is the code position of the context; was and first are history:
\* the register value when prev_default_ was saved, and whether no other
\* context had started a guard on this register by then.
CtxGuard(where, reg, prev, was, first) ==
  [reg |-> reg, was |-> was, prev_default_ |-> prev, where |-> where, first |-> first]

NoGuard == CtxGuard("idle", "none", None, None, FALSE)

\* write a register from a recorded value
WriteRegister(reg, v) ==
  IF reg = "device"
    THEN /\ SetDefaultDevice(v)
         /\ lastSetDevice' = v
         /\ UNCHANGED <<default_dtype, lastSetDtype>>
    ELSE /\ SetDefaultDtype(v.dtype)
         /\ lastSetDtype' = v.dtype
         /\ UNCHANGED <<default_device, lastSetDevice>>

\* member initialiser: prev_default_(GetDefaultDevice()) / (GetDefaultDtype())
CtxSave(c, reg) ==
  /\ ctx[c].where = "idle"
  /\ ctx' = [ctx EXCEPT ![c] =
       CtxGuard("saved", reg, RegValue(reg), RegValue(reg),
                \A o \in Contexts \ {c} : ctx[o].reg # reg)]
  /\ Did("guard.save", AsInt(c), RegValue(reg))
  /\ UNCHANGED <<regVars, guards, opts, tickVars, debug_mode, restored, pc, tmp>>

\* constructor body: { SetDefaultDevice(device); } / { SetDefaultDtype(dtype); }
CtxSet(c, v) ==
  /\ ctx[c].where = "saved"
  /\ WriteRegister(ctx[c].reg, v)
  /\ ctx' = [ctx EXCEPT ![c].where = "alive"]
  /\ Did("guard.set", AsInt(c), v)
  /\ UNCHANGED <<guards, opts, tickVars, debug_mode, restored, pc, tmp>>

\* destructor: { SetDefaultDevice(prev_default_); } / { SetDefaultDtype(prev_default_); }
CtxDtor(c) ==
  /\ ctx[c].where = "alive"
  /\ WriteRegister(ctx[c].reg, ctx[c].prev_default_)
  /\ ctx' = [ctx EXCEPT ![c].where = "done"]
  /\ Did("guard.dtor", AsInt(c), ctx[c].prev_default_)
  /\ UNCHANGED <<guards, opts, tickVars, debug_mode, restored, pc, tmp>>

ContextSave == \E c \in Contexts : \E reg \in {"device", "dtype"} : CtxSave(c, reg)
ContextSet  == \E c \in Contexts : \E v \in RegValues(ctx[c].reg) : CtxSet(c, v)
ContextDtor == \E c \in Contexts : CtxDtor(c)

\* ------------------------------------------------------------ specifications
\* The registers start as device = CPU and dtype = one of the concrete types.
InitRegisters ==
  /\ default_device = Device(kCpuDevice)
  /\ default_dtype \in ConcreteDtypes

\* "Global variable, initialized from zero"
InitTick == g_tick_counter = 0

InitDebug == debug_mode = FALSE

InitHistory ==
  /\ lastSetDevice = Device(kCpuDevice)
  /\ lastSetDtype = default_dtype
  /\ last = Op("init", None, None)
  /\ scen = 0
  /\ inScope = 0
  /\ restored = {}
  /\ ticks = <<>>

Init ==
  /\ InitRegisters
  /\ InitTick
  /\ InitDebug
  /\ InitHistory
  /\ guards = <<>>
  /\ opts = None
  /\ pc = [t \in Threads |-> "idle"]
  /\ tmp = [t \in Threads |-> 0]
  /\ ctx = [c \in Contexts |-> NoGuard]

\* One thread of control using the registers, the guards and TensorOptions.
Next ==
  \/ CallGetDefaultDevice
  \/ CallGetDefaultDtype
  \/ CallSetDefaultDevice
  \/ CallSetDefaultDtype
  \/ CallWithDeviceAs
  \/ WithDeviceAsDtor
  \/ CallWithDtypeAs
  \/ WithDtypeAsDtor
  \/ GuardCopyCtor
  \/ NewTensorOptions0
  \/ NewTensorOptionsDtype
  \/ NewTensorOptionsDevice
  \/ NewTensorOptionsDeviceType
  \/ NewTensorOptionsDtypeDevice
  \/ NewTensorOptionsDtypeDevice2
  \/ NewTensorOptionsCopy

Spec == Init /\ [][Next]_vars

\* One thread of control using SizeOf, the tick counter and the debug flag.
NextMisc ==
  \/ CallSizeOf
  \/ NextTick
  \/ CurrentTick
  \/ DebugMode
  \/ SetDebugMode

SpecMisc == Init /\ [][NextMisc]_vars

\* Several threads calling NextTick on the shared counter.
NextConc ==
  \/ ThreadNextTickLoad
  \/ ThreadNextTickStore

SpecConc == Init /\ [][NextConc]_vars

\* One thread of control writing all four globals: the two registers (by
\* setter and by guard), the tick counter and the debug flag.
NextGlobals ==
  \/ CallSetDefaultDevice
  \/ CallSetDefaultDtype
  \/ CallWithDeviceAs
  \/ WithDeviceAsDtor
  \/ CallWithDtypeAs
  \/ WithDtypeAsDtor
  \/ GuardCopyCtor
  \/ NextTick
  \/ SetDebugMode

SpecGlobals == Init /\ [][NextGlobals]_vars

\* Two contexts, each building and destroying one guard on shared registers.
NextContexts ==
  \/ ContextSave
  \/ ContextSet
  \/ ContextDtor

SpecContexts == Init /\ [][NextContexts]_vars

\* ------------------------------------------------------------------ claims
Register(reg) == IF reg = "device" THEN default_device ELSE default_dtype

\* C1: destroying the innermost guard (one built by the overriding
\* constructor) leaves its register equal to the value the register held when
\* that guard was constructed; for the outermost guard that is the value from
\* before the chain.
C1_GuardsRestoreLIFO ==
  (last.op \in {"~WithDeviceAs", "~WithDtypeAs"} /\ ~last.arg.copy)
    => Register(last.arg.reg) = last.arg.was

\* dtype = Float, G1 overrides to Double, G2 is built inside G1 and has just
\* been destroyed: the register is back at G1's Double while G1 is alive.
C1_Witness ==
  /\ last.op = "~WithDtypeAs"
  /\ ~last.arg.copy
  /\ last.arg.txn = 2
  /\ last.arg.was = kDoubleDtype
  /\ Len(guards) = 1
  /\ guards[1].reg = "dtype" /\ ~guards[1].copy
  /\ guards[1].was = kFloatDtype
  /\ default_dtype = kDoubleDtype

\* C2: every constructed TensorOptions has a concrete dtype, never
\* kDefaultDtype.
C2_OptionsDtypeConcrete ==
  opts # None => opts.dtype # kDefaultDtype

\* C3: no guard object is a copy of another, and the value saved by one
\* constructor call is written back at most once.
C3_GuardExclusive ==
  /\ \A i \in 1..Len(guards) : ~guards[i].copy
  /\ last.op \in {"~WithDeviceAs", "~WithDtypeAs"} => ~last.ret.again

\* C4: for a DataType value outside the case labels SizeOf raises the
\* invalid-variant error; it never returns and never falls through.
C4_SizeOfFailsOutsideSet ==
  (last.op = "SizeOf" /\ last.arg.dtype \notin SizeOfCases) => last.ret.kind = "error"

\* C5: for kFloatDtype and kDoubleDtype SizeOf returns a byte width and
\* raises no error.
C5_SizeOfTotalOnConcrete ==
  (last.op = "SizeOf" /\ last.arg.dtype \in ConcreteDtypes) => last.ret.kind = "return"

\* C6: the i-th sequential NextTick call returns i: the first returns 1 and
\* each later call returns the previous value plus one.
C6_NextTickSequential ==
  /\ \A i \in 1..Len(ticks) : ticks[i] = i
  /\ last.op = "NextTick" => (ticks # <<>> /\ last.ret = AsInt(ticks[Len(ticks)]))

C6_Witness ==
  /\ last.op = "NextTick"
  /\ Len(ticks) >= 3
  /\ ticks[1] = 1 /\ ticks[2] = 2 /\ ticks[3] = 3

\* C7: no two NextTick calls made by concurrent threads return the same value.
C7_TicksDistinct ==
  \A i, j \in 1..Len(ticks) : i # j => ticks[i] # ticks[j]

\* C8: in a freshly constructed TensorOptions every supplied field is the
\* argument, a bare DeviceType is promoted to Device, and every omitted field
\* is the register value at construction.
C8_ResolverPrecedence ==
  last.op = "TensorOptions" =>
    LET has == IF last.arg = None THEN {} ELSE DOMAIN last.arg IN
      /\ opts = last.ret
      /\ "dtype" \in has => opts.dtype = last.arg.dtype
      /\ "dtype" \notin has => opts.dtype = default_dtype
      /\ "device" \in has => opts.device = last.arg.device
      /\ "tag" \in has => opts.device = Device(last.arg.tag)
      /\ has \cap {"device", "tag"} = {} => opts.device = default_device

\* registers {Float, CPU} and TensorOptions(Double, kCudaDevice) = {Double, CUDA}
C8_Witness ==
  /\ last.op = "TensorOptions"
  /\ last.arg = [dtype |-> kDoubleDtype, tag |-> kCudaDevice]
  /\ default_dtype = kFloatDtype /\ default_device = CPU
  /\ opts = Options(kDoubleDtype, CUDA)

\* the states of the end-to-end scenario
Outside == guards = <<>> /\ default_device = CPU /\ default_dtype = kFloatDtype
InDevice ==
  /\ Len(guards) = 1
  /\ guards[1].reg = "device" /\ guards[1].prev_default_ = CPU /\ ~guards[1].copy
  /\ default_device = CUDA /\ default_dtype = kFloatDtype
InDeviceDtype ==
  /\ Len(guards) = 2
  /\ guards[1].reg = "device" /\ guards[1].prev_default_ = CPU /\ ~guards[1].copy
  /\ guards[2].reg = "dtype" /\ guards[2].prev_default_ = kFloatDtype
  /\ ~guards[2].copy
  /\ default_device = CUDA /\ default_dtype = kDoubleDtype

IsTensorOptions0(l) == l.op = "TensorOptions" /\ l.arg = None

C9Step ==
  \* a guard on one register leaves the other register alone
  /\ last'.op \in {"WithDeviceAs", "~WithDeviceAs"} => default_dtype' = default_dtype
  /\ last'.op \in {"WithDtypeAs", "~WithDtypeAs"} => default_device' = default_device
  \* the scenario, step by step
  /\ (Outside /\ last'.op = "WithDeviceAs" /\ last'.arg = CUDA) => InDevice'
  /\ (InDevice /\ last'.op = "WithDtypeAs" /\ last'.arg = AsDtype(kDoubleDtype))
       => InDeviceDtype'
  /\ (InDeviceDtype /\ IsTensorOptions0(last')) => opts' = Options(kDoubleDtype, CUDA)
  /\ (InDeviceDtype /\ last'.op = "~WithDtypeAs") => InDevice'
  /\ (InDevice /\ IsTensorOptions0(last')) => opts' = Options(kFloatDtype, CUDA)
  /\ (InDevice /\ last'.op = "~WithDeviceAs") => Outside'
  /\ (Outside /\ IsTensorOptions0(last')) => opts' = Options(kFloatDtype, CPU)

\* TensorOptions() as observed at the three points of the scenario
C9Observed ==
  /\ scen = 3 => opts = Options(kDoubleDtype, CUDA)
  /\ scen = 5 => opts = Options(kFloatDtype, CUDA)
  /\ scen = 7 => opts = Options(kFloatDtype, CPU)

\* C9: building or destroying a guard on one register leaves the other
\* register unchanged, and from {Float, CPU} the guards WithDeviceAs(CUDA) and
\* WithDtypeAs(Double) give TensorOptions() = {Double, CUDA} inside both,
\* {Float, CUDA} after the inner one is destroyed and {Float, CPU} after both.
C9_EndToEndScoping == []C9Observed /\ [][C9Step]_vars

\* the whole scenario has just run, its seven calls back to back
C9_Witness ==
  /\ scen = 7
  /\ last.op = "TensorOptions" /\ last.arg = None
  /\ guards = <<>>

GetterLeavesState ==
  UNCHANGED <<regVars, guards, opts, tickVars, debug_mode, restored, concVars>>

C10Step ==
  /\ last'.op = "GetDefaultDevice" =>
       (last'.ret = lastSetDevice /\ GetterLeavesState)
  /\ last'.op = "GetDefaultDtype" =>
       (last'.ret = AsDtype(lastSetDtype) /\ GetterLeavesState)

\* C10: each register holds the argument of the latest call of its setter, or
\* its initial value (CPU for the device) when there was none; a getter
\* returns that value and changes no state.
C10_GettersReturnLastSet ==
  /\ [](default_device = lastSetDevice /\ default_dtype = lastSetDtype)
  /\ [](last.op = "init" => default_device = CPU)
  /\ [][C10Step]_vars

\* GetDefaultDevice has just returned CUDA with no guard alive: the initial
\* value was CPU, so CUDA is the argument of the latest SetDefaultDevice
C10_Witness ==
  /\ last.op = "GetDefaultDevice"
  /\ last.ret = CUDA
  /\ lastSetDevice = CUDA
  /\ guards = <<>>

\* Operations that construct a TensorOptions object.
OptionsCtors == {"TensorOptions", "TensorOptionsCopy"}

C11Step ==
  (opts # None /\ last'.op \notin OptionsCtors) =>
    /\ opts' = opts
    /\ DtypeOf(opts)' = DtypeOf(opts)
    /\ DeviceOf(opts)' = DeviceOf(opts)

\* C11: a constructed TensorOptions keeps the dtype and device it got at
\* construction: a step that is a setter call, a guard construction or a
\* guard destruction (any step that constructs no TensorOptions) leaves the
\* object and what its two members read as unchanged.
C11_OptionsEager == [][C11Step]_vars

\* TensorOptions() was built under both guards and resolved to
\* {Double, CUDA}; the dtype guard has since been destroyed, so the register
\* is back at Float while the object still reads Double.
C11_Witness ==
  /\ scen = 4
  /\ last.op = "~WithDtypeAs"
  /\ opts = Options(kDoubleDtype, CUDA)
  /\ DtypeOf(opts) = kDoubleDtype
  /\ default_dtype = kFloatDtype

\* The value returned by the most recent NextTick call, 0 when there was none.
LatestTick == IF ticks = <<>> THEN 0 ELSE ticks[Len(ticks)]

C12Step ==
  /\ last'.op = "CurrentTick" =>
       (last'.ret = AsInt(LatestTick) /\ UNCHANGED tickVars)
  /\ (last'.op = "NextTick" /\ ticks # <<>>) =>
       last'.ret = AsInt(LatestTick + 1)

\* C12: CurrentTick returns the result of the most recent NextTick call, or 0
\* when NextTick was never called, and leaves the counter alone; whatever
\* calls come between two NextTick calls, the second returns the first
\* result plus one.
C12_CurrentTickReadsOnly ==
  /\ [](last.op = "CurrentTick" => last.ret = AsInt(LatestTick))
  /\ [][C12Step]_vars

\* NextTick was called twice and CurrentTick has just returned 2.
C12_Witness ==
  /\ last.op = "CurrentTick"
  /\ ticks = <<1, 2>>
  /\ last.ret = AsInt(2)
  /\ g_tick_counter = 2

C13Step ==
  /\ last'.op = "SetDebugMode" => debug_mode' = last'.arg.flag
  /\ last'.op # "SetDebugMode" => debug_mode' = debug_mode
  /\ last'.op = "DebugMode" => last'.ret = AsBool(debug_mode)

\* C13: the flag is false after initialisation, SetDebugMode(b) makes it b
\* and no other operation writes it, and DebugMode returns the flag: so
\* DebugMode returns the argument of the most recent SetDebugMode call, and
\* false when there was none.
C13_DebugModeLastSet ==
  /\ [](last.op = "init" => ~debug_mode)
  /\ [](last.op = "SetDebugMode" => debug_mode = last.arg.flag)
  /\ [](last.op = "DebugMode" => last.ret = AsBool(debug_mode))
  /\ [][C13Step]_vars

\* DebugMode has just returned true: the flag starts false, so true is the
\* argument of the latest SetDebugMode call.
C13_Witness ==
  /\ last.op = "DebugMode"
  /\ last.ret = AsBool(TRUE)
  /\ debug_mode

\* The byte widths SizeOf can return for a data type.
Widths(dtype) == {o.value : o \in {r \in SizeOf(dtype) : r.kind = "return"}}

\* C16: SizeOf returns a width for kFloatDtype and one for kDoubleDtype, the
\* first strictly smaller than the second, and a call SizeOf(kDefaultDtype)
\* returns no width.
C16_FloatNarrowerThanDouble ==
  /\ (last.op = "SizeOf" /\ last.arg = AsDtype(kDefaultDtype)) =>
       last.ret.kind # "return"
  /\ (last.op = "SizeOf" /\ last.arg \in {AsDtype(kFloatDtype), AsDtype(kDoubleDtype)}) =>
       /\ last.ret.kind = "return"
       /\ \A f \in Widths(kFloatDtype) : \A d \in Widths(kDoubleDtype) : f < d
       /\ Widths(kDoubleDtype) # {}

Dtors == {"~WithDeviceAs", "~WithDtypeAs"}

\* Whatever the register holds when the destructor of the innermost guard
\* runs, afterwards it holds what it held when that guard was constructed.
C14Step ==
  (guards # <<>> /\ last'.op \in Dtors /\ ~guards[Len(guards)].copy) =>
    LET g == guards[Len(guards)] IN
      /\ last'.arg = g
      /\ g.reg = "device" => default_device' = g.was
      /\ g.reg = "dtype" => default_dtype' = g.was

\* C14: the destructor of a guard built by the overriding constructor writes
\* back the value the register held just before the construction, whatever
\* the register holds at that moment; in particular after one or more direct
\* SetDefaultDtype / SetDefaultDevice calls made while the guard was alive.
C14_RestoreDespiteDirectSets ==
  /\ [](inScope = 3 => Register(last.arg.reg) = last.arg.was)
  /\ [][C14Step]_vars

\* With dtype = Float and no guard alive a WithDtypeAs guard was built,
\* SetDefaultDtype was then called directly at least once, and the guard has
\* just been destroyed: the register holds Float again.
C14_Witness ==
  /\ inScope = 3
  /\ last.op = "~WithDtypeAs"
  /\ ~last.arg.copy
  /\ last.arg.was = kFloatDtype
  /\ default_dtype = kFloatDtype
  /\ guards = <<>>

\* C15: when both contexts have built and destroyed a guard on the same
\* register, that register holds the value it held before either guard was
\* constructed, which is the value saved by the context that started first.
C15_ConcurrentGuardsRevert ==
  \A reg \in {"device", "dtype"} :
    (\A c \in Contexts : ctx[c].where = "done" /\ ctx[c].reg = reg) =>
      \E c \in Contexts : ctx[c].first /\ RegValue(reg) = ctx[c].was

DeviceWriters == {"SetDefaultDevice", "WithDeviceAs", "~WithDeviceAs"}
DtypeWriters  == {"SetDefaultDtype", "WithDtypeAs", "~WithDtypeAs"}

C17Step ==
  /\ last'.op = "NextTick" =>
       /\ g_tick_counter' # g_tick_counter
       /\ UNCHANGED <<default_device, default_dtype, debug_mode>>
  /\ last'.op = "SetDebugMode" =>
       UNCHANGED <<default_device, default_dtype, g_tick_counter>>
  /\ last'.op \in DeviceWriters =>
       UNCHANGED <<default_dtype, g_tick_counter, debug_mode>>
  /\ last'.op \in DtypeWriters =>
       UNCHANGED <<default_device, g_tick_counter, debug_mode>>

\* C17: NextTick changes the tick counter and none of the registers or the
\* debug flag; SetDebugMode changes neither register nor the tick counter; a
\* setter call, a guard construction or a guard destruction on one register
\* changes neither the other register, the tick counter nor the debug flag.
C17_GlobalsIndependent == [][C17Step]_vars

\* All four globals have left their initial values (0 ticks, flag off,
\* device CPU, a concrete dtype) and a dtype guard has just been destroyed
\* with a device guard still alive.
C17_Witness ==
  /\ last.op = "~WithDtypeAs"
  /\ g_tick_counter = 2
  /\ debug_mode
  /\ default_device = CUDA
  /\ default_dtype = kDefaultDtype
  /\ Len(guards) = 1
  /\ guards[1].reg = "device"

====
